---- MODULE Spec2Model ----
(***************************************************************************)
(* WareCost: query cost attribution, anomaly detection and budget alerts.  *)
(* A model of src/warecost.py (QueryRecord, CostEngine) and of the HTTP    *)
(* handlers of src/api.py.                                                 *)
(*                                                                         *)
(* Representation of Python values                                         *)
(*   str    a sequence of symbols.  A symbol is one character, or one of   *)
(*          the chunks "team=", "dbt:", "model=", "dag=" (no chunk is a    *)
(*          prefix, suffix or overlap of another, so a string has exactly  *)
(*          one such reading and substring search for a chunk is search    *)
(*          for the symbol), or a word made of ordinary letters.           *)
(*   None   the one-symbol sequence NoneVal (a symbol no string holds).    *)
(*   float  an integer number of fixed decimal units:                      *)
(*            credits_used        1e-5 credit                              *)
(*            round(x, 4) credits 1e-4 credit                              *)
(*            round(x, 4) dollars 1e-4 dollar                              *)
(*            round(x, 2) dollars cent                                     *)
(*            budget limit        cent                                     *)
(*            round(x, 1) percent 0.1 percent                              *)
(*            z-scores            0.01                                     *)
(*          round() is round-half-to-even on the exact decimal value.      *)
(*   dict   insertion ordered: a sequence of entries with distinct keys.   *)
(***************************************************************************)
EXTENDS Integers, Sequences, FiniteSets, TLC

VARIABLES credit_price, queries, budgets, last

vars == <<credit_price, queries, budgets, last>>

(***************************************************************************)
(* Bounds of the model.                                                    *)
(***************************************************************************)
MaxBatch == 2
MaxTagLen == 3
MaxUserLen == 2

(***************************************************************************)
(* Generic helpers.                                                        *)
(***************************************************************************)
Range(s) == {s[i] : i \in 1..Len(s)}

Abs(n) == IF n < 0 THEN -n ELSE n

RECURSIVE SeqsUpTo(_, _)
SeqsUpTo(S, n) ==
  IF n = 0 THEN {<<>>}
  ELSE LET shorter == SeqsUpTo(S, n - 1)
       IN shorter \cup {Append(s, x) : s \in {t \in shorter : Len(t) = n - 1}, x \in S}

RECURSIVE SumSeq(_)
SumSeq(s) == IF s = <<>> THEN 0 ELSE s[1] + SumSeq(Tail(s))

RECURSIVE GCD(_, _)
GCD(a, b) == IF b = 0 THEN Abs(a) ELSE GCD(b, a % Abs(b))

RECURSIVE GCDSeq(_)
GCDSeq(s) == IF s = <<>> THEN 0 ELSE GCD(s[1], GCDSeq(Tail(s)))

\* a/b <= c/d for a, c >= 0 and b, d > 0, by the continued fraction
\* expansion: no product is formed, so no intermediate value exceeds the
\* operands.
RECURSIVE FracLeq(_, _, _, _)
FracLeq(a, b, c, d) ==
  LET qa == a \div b
      qc == c \div d
      ra == a % b
      rc == c % d
  IN IF qa # qc THEN qa < qc
     ELSE IF ra = 0 THEN TRUE
     ELSE IF rc = 0 THEN FALSE
     ELSE FracLeq(d, rc, b, ra)

FracLess(a, b, c, d) == ~FracLeq(c, d, a, b)

(***************************************************************************)
(* Python's round(): n/d rounded to the nearest integer, ties to even.     *)
(***************************************************************************)
RoundHalfEven(n, d) ==
  LET q == n \div d
      r == n % d
  IN IF 2 * r < d THEN q
     ELSE IF 2 * r > d THEN q + 1
     ELSE IF q % 2 = 0 THEN q ELSE q + 1

(***************************************************************************)
(* Python's str operations on symbol sequences.                            *)
(***************************************************************************)
NoneVal == <<"<None>">>

Unattributed == <<"unattributed">>

Contains(s, sym) == \E i \in 1..Len(s) : s[i] = sym

IndexOf(s, sym) == CHOOSE i \in 1..Len(s) : s[i] = sym /\ \A j \in 1..(i - 1) : s[j] # sym

\* s.split(sym): the pieces between the occurrences of sym.
RECURSIVE Split(_, _)
Split(s, sym) ==
  IF ~Contains(s, sym) THEN <<s>>
  ELSE LET i == IndexOf(s, sym)
       IN <<SubSeq(s, 1, i - 1)>> \o Split(SubSeq(s, i + 1, Len(s)), sym)

RECURSIVE LStrip(_)
LStrip(s) == IF s # <<>> /\ s[1] = " " THEN LStrip(Tail(s)) ELSE s

RECURSIVE RStrip(_)
RStrip(s) == IF s # <<>> /\ s[Len(s)] = " " THEN RStrip(SubSeq(s, 1, Len(s) - 1)) ELSE s

Strip(s) == RStrip(LStrip(s))

\* Python truthiness of an Optional[str]: None and "" are falsy.
Falsy(v) == v = NoneVal \/ v = <<>>

PyOr(a, b) == IF Falsy(a) THEN b ELSE a

(***************************************************************************)
(* QueryRecord.                                                            *)
(***************************************************************************)
RequiredFields == {"query_id", "query_text", "user_name", "warehouse_name",
                   "credits_used", "bytes_scanned", "execution_time_ms", "start_time"}

AllFields == RequiredFields \cup {"query_tag"}

\* A credits_used that is not a number (a str such as "abc"): the dataclass
\* annotation is not enforced, so the constructor stores it as it is.
NonNumeric == -1

IsNumber(v) == v # NonNumeric

\* QueryRecord(**r) raises TypeError for a missing required field and for an
\* unexpected keyword.
Constructible(r) == RequiredFields \subseteq DOMAIN r /\ DOMAIN r \subseteq AllFields

QueryRecord(r) == [f \in AllFields |-> IF f \in DOMAIN r THEN r[f] ELSE <<>>]

Extract(q, prefix) ==
  IF Contains(q.query_tag, prefix)
  THEN Strip(Split(Split(q.query_tag, prefix)[2], ";")[1])
  ELSE NoneVal

TeamUserFirst(q) ==
  IF Contains(q.user_name, "_") THEN Split(q.user_name, "_")[1]
  ELSE PyOr(Extract(q, "team="), Unattributed)

Team(q) ==
  PyOr(Extract(q, "team="),
       IF Contains(q.user_name, "_") THEN Split(q.user_name, "_")[1] ELSE Unattributed)

DbtModel(q) == PyOr(Extract(q, "dbt:"), Extract(q, "model="))

DagId(q) == Extract(q, "dag=")

HardcodedPrice == 3

CostUsd(q) == RoundHalfEven(q.credits_used * HardcodedPrice, 10)

(***************************************************************************)
(* Inputs of the normaliser specification.                                 *)
(***************************************************************************)
TagSym == {"team=", "dbt:", "model=", "dag=", ";", " ", "x"}

UserSym == {"a", "b", "_"}

TagStrings == SeqsUpTo(TagSym, MaxTagLen)

UserStrings == SeqsUpTo(UserSym, MaxUserLen)

RawRecord(id, user, wh, credits, bytes, tag) ==
  [query_id |-> id, query_text |-> <<"SELECT">>, user_name |-> user,
   warehouse_name |-> wh, credits_used |-> credits, bytes_scanned |-> bytes,
   execution_time_ms |-> 500, start_time |-> <<"2024-01-15T10:00:00">>,
   query_tag |-> tag]

Without(r, f) == [g \in DOMAIN r \ {f} |-> r[g]]

(***************************************************************************)
(* The normaliser on its own: the raw record is drawn by InitNorm, and     *)
(* Normalize constructs the QueryRecord and reads its derived attributes.  *)
(***************************************************************************)
NormInputs ==
  {RawRecord(<<"q1">>, user, <<"WH">>, 4000, 10, tag) :
     user \in UserStrings, tag \in TagStrings}
  \cup {Without(RawRecord(<<"q1">>, user, <<"WH">>, 4000, 10, <<>>), "query_tag") :
          user \in UserStrings}

InitNorm ==
  /\ credit_price = 3
  /\ queries = <<>>
  /\ budgets = <<>>
  /\ \E raw \in NormInputs : last = [op |-> "raw", arg |-> raw, raised |-> "", ret |-> <<>>]

Normalize ==
  /\ last.op = "raw"
  /\ LET q == QueryRecord(last.arg)
     IN last' = [op |-> "QueryRecord", arg |-> last.arg, raised |-> "",
                 ret |-> [team |-> Team(q), dbt_model |-> DbtModel(q),
                          dag_id |-> DagId(q), cost_usd |-> CostUsd(q)]]
  /\ UNCHANGED <<credit_price, queries, budgets>>

NextNorm == Normalize

SpecNorm == InitNorm /\ [][NextNorm]_vars

(***************************************************************************)
(* CostEngine.  An engine value is [credit_price, queries, budgets]; a     *)
(* method's outcome is [raised, ret]: the exception it raises ("" when it  *)
(* returns) and its return value.                                          *)
(***************************************************************************)
Engine(p, qs, bs) == [credit_price |-> p, queries |-> qs, budgets |-> bs]

Returns(v) == [raised |-> "", ret |-> v]

Raises(exc) == [raised |-> exc, ret |-> <<>>]

\* sum(), float * float and round() raise TypeError on a str operand.
AllNumeric(qs) == \A i \in 1..Len(qs) : IsNumber(qs[i].credits_used)

TotalCredits(qs) == SumSeq([i \in 1..Len(qs) |-> qs[i].credits_used])

TotalBytes(qs) == SumSeq([i \in 1..Len(qs) |-> qs[i].bytes_scanned])

\* load: the list comprehension is evaluated before the assignment, so a
\* record that cannot be constructed leaves self.queries as it was.
LoadOutcome(records) ==
  IF \A i \in 1..Len(records) : Constructible(records[i])
  THEN Returns(Len(records))
  ELSE [raised |-> "TypeError", ret |-> 0]

LoadedAppending(old, records) ==
  IF \A i \in 1..Len(records) : Constructible(records[i])
  THEN old \o [i \in 1..Len(records) |-> QueryRecord(records[i])]
  ELSE old

Loaded(old, records) ==
  IF \A i \in 1..Len(records) : Constructible(records[i])
  THEN [i \in 1..Len(records) |-> QueryRecord(records[i])]
  ELSE old

\* self.budgets[team] = amount on an insertion-ordered dict.
HasKey(d, k) == \E i \in 1..Len(d) : d[i].team = k

DictSet(d, k, v) ==
  IF HasKey(d, k)
  THEN [i \in 1..Len(d) |-> IF d[i].team = k THEN [team |-> k, limit |-> v] ELSE d[i]]
  ELSE Append(d, [team |-> k, limit |-> v])

(***************************************************************************)
(* breakdown                                                               *)
(***************************************************************************)
StrFields == {"query_id", "query_text", "user_name", "warehouse_name",
              "start_time", "query_tag"}

\* getattr(q, dim, None)
GetAttr(q, dim) ==
  CASE dim = "team" -> Team(q)
    [] dim = "dbt_model" -> DbtModel(q)
    [] dim = "dag_id" -> DagId(q)
    [] dim \in StrFields -> q[dim]
    [] OTHER -> NoneVal

GroupKey(q, dim) == PyOr(GetAttr(q, dim), Unattributed)

\* The keys of groups, in the order setdefault creates them.
RECURSIVE GroupKeys(_, _)
GroupKeys(qs, dim) ==
  IF qs = <<>> THEN <<>>
  ELSE LET front == GroupKeys(SubSeq(qs, 1, Len(qs) - 1), dim)
           k == GroupKey(qs[Len(qs)], dim)
       IN IF k \in Range(front) THEN front ELSE Append(front, k)

MembersAttributed(qs, dim, k) == SelectSeq(qs, LAMBDA q : GetAttr(q, dim) = k)

Members(qs, dim, k) == SelectSeq(qs, LAMBDA q : GroupKey(q, dim) = k)

\* sorted(..., key = -total): ascending in the key and stable, so an item
\* goes behind every item already placed whose total is at least its own.
PlaceAscending(placed, g) ==
  LET n == Cardinality({i \in 1..Len(placed) : placed[i].total <= g.total})
  IN SubSeq(placed, 1, n) \o <<g>> \o SubSeq(placed, n + 1, Len(placed))

PlaceByTotal(placed, g) ==
  LET n == Cardinality({i \in 1..Len(placed) : placed[i].total >= g.total})
  IN SubSeq(placed, 1, n) \o <<g>> \o SubSeq(placed, n + 1, Len(placed))

RECURSIVE SortedByTotal(_)
SortedByTotal(gs) ==
  IF gs = <<>> THEN <<>>
  ELSE PlaceByTotal(SortedByTotal(SubSeq(gs, 1, Len(gs) - 1)), gs[Len(gs)])

GroupEntry(p, k, qs) ==
  LET tc == TotalCredits(qs)
  IN [key |-> k, queries |-> Len(qs), credits |-> RoundHalfEven(tc, 10),
      cost_usd |-> RoundHalfEven(tc * p, 1000), bytes |-> TotalBytes(qs)]

Breakdown(e, dim) ==
  IF ~AllNumeric(e.queries) THEN Raises("TypeError")
  ELSE LET keys == GroupKeys(e.queries, dim)
           groups == [i \in 1..Len(keys) |->
                        [key |-> keys[i],
                         total |-> TotalCredits(Members(e.queries, dim, keys[i]))]]
           sorted == SortedByTotal(groups)
       IN Returns([i \in 1..Len(sorted) |->
                     GroupEntry(e.credit_price, sorted[i].key,
                                Members(e.queries, dim, sorted[i].key))])

(***************************************************************************)
(* anomalies.  With n costs c and S their sum, Dev[i] = n * c[i] - S is n  *)
(* times the deviation of c[i] from statistics.mean, and                    *)
(* statistics.stdev squared is (sum of Dev[j]^2) / (n^2 * (n - 1)), so the  *)
(* z-score of c[i] is sign(Dev[i]) * sqrt((n - 1) * Dev[i]^2 / sum Dev^2).  *)
(* The z-score does not change when every Dev is divided by their gcd,      *)
(* which keeps the squares small.                                           *)
(***************************************************************************)
DefaultZThreshold == 200

MinSample == 3

Costs(qs) == [i \in 1..Len(qs) |-> CostUsd(qs[i])]

Dev(costs) == [i \in 1..Len(costs) |-> Len(costs) * costs[i] - SumSeq(costs)]

Reduced(costs) ==
  LET d == Dev(costs)
      g == GCDSeq(d)
  IN [i \in 1..Len(d) |-> IF g = 0 THEN 0 ELSE d[i] \div g]

SumSquares(r) == SumSeq([i \in 1..Len(r) |-> r[i] * r[i]])

\* stdev(costs) == 0
StdevIsZero(costs) == SumSquares(Reduced(costs)) = 0

\* statistics.stdev divides the sum of squares by n - 1.
SampleDivisor(costs) == Len(costs) - 1

\* z^2 of costs[i] as the fraction num/den.
ZSquared(costs, i) ==
  LET r == Reduced(costs)
  IN [num |-> SampleDivisor(costs) * r[i] * r[i], den |-> SumSquares(r)]

ZAtLeast(costs, i, z100) ==
  LET r == Reduced(costs)
      zz == ZSquared(costs, i)
  IN IF z100 >= 0
     THEN (r[i] >= 0 /\ FracLeq(z100 * z100, 10000, zz.num, zz.den))
     ELSE (r[i] >= 0 \/ FracLeq(zz.num, zz.den, z100 * z100, 10000))

\* (q.cost_usd - mu) / sd > z_thresh, the threshold given in hundredths.
ZExceeds(costs, i, z100) ==
  LET r == Reduced(costs)
      zz == ZSquared(costs, i)
  IN IF z100 >= 0
     THEN (r[i] > 0 /\ FracLess(z100 * z100, 10000, zz.num, zz.den))
     ELSE (r[i] >= 0 \/ FracLess(zz.num, zz.den, z100 * z100, 10000))

\* The largest k in lo..hi with k - 1/2 <= 100 * sqrt(num/den); lo is one.
RECURSIVE LastHalfStep(_, _, _, _)
LastHalfStep(num, den, lo, hi) ==
  IF lo = hi THEN lo
  ELSE LET mid == (lo + hi + 1) \div 2
       IN IF FracLeq((2 * mid - 1) * (2 * mid - 1), 40000, num, den)
          THEN LastHalfStep(num, den, mid, hi)
          ELSE LastHalfStep(num, den, lo, mid - 1)

\* round(z, 2) in hundredths: the k nearest to 100 |z| (a tie going to the
\* even k), signed as the deviation.
RoundedZ(costs, i) ==
  LET r == Reduced(costs)
      zz == ZSquared(costs, i)
      k == LastHalfStep(zz.num, zz.den, 0, 100 * Len(costs))
      tie == k > 0 /\ FracLeq(zz.num, zz.den, (2 * k - 1) * (2 * k - 1), 40000)
      nearest == IF tie /\ k % 2 = 1 THEN k - 1 ELSE k
  IN IF r[i] < 0 THEN -nearest ELSE nearest

\* sorted(..., key = -z_score): stable, highest rounded z-score first.
PlaceByZ(placed, a) ==
  LET n == Cardinality({i \in 1..Len(placed) : placed[i].z_score >= a.z_score})
  IN SubSeq(placed, 1, n) \o <<a>> \o SubSeq(placed, n + 1, Len(placed))

RECURSIVE SortedByZ(_)
SortedByZ(as) ==
  IF as = <<>> THEN <<>>
  ELSE PlaceByZ(SortedByZ(SubSeq(as, 1, Len(as) - 1)), as[Len(as)])

Flagged(qs, z100) ==
  LET costs == Costs(qs)
      hits == SelectSeq([i \in 1..Len(qs) |-> i], LAMBDA i : ZExceeds(costs, i, z100))
  IN [j \in 1..Len(hits) |->
        [query_id |-> qs[hits[j]].query_id, cost_usd |-> costs[hits[j]],
         z_score |-> RoundedZ(costs, hits[j]), team |-> Team(qs[hits[j]]),
         warehouse |-> qs[hits[j]].warehouse_name]]

Anomalies(e, z100) ==
  IF Len(e.queries) < MinSample THEN Returns(<<>>)
  ELSE IF ~AllNumeric(e.queries) THEN Raises("TypeError")
  ELSE IF StdevIsZero(Costs(e.queries)) THEN Returns(<<>>)
  ELSE Returns(SortedByZ(Flagged(e.queries, z100)))

(***************************************************************************)
(* budget_alerts                                                           *)
(***************************************************************************)
WarnPct == 80

OverPct == 100

\* by_team.get(team, {}).get("cost_usd", 0)
Spent(byTeam, team) ==
  IF \E i \in 1..Len(byTeam) : byTeam[i].key = team
  THEN byTeam[CHOOSE i \in 1..Len(byTeam) : byTeam[i].key = team].cost_usd
  ELSE 0

\* round(spent / limit * 100, 1) if limit > 0 else 0, in tenths of a percent.
Pct(spent, limit) == IF limit > 0 THEN RoundHalfEven(spent * 1000, limit) ELSE 0

AlertOf(byTeam, b) ==
  LET spent == Spent(byTeam, b.team)
      pct == Pct(spent, b.limit)
  IN [team |-> b.team, budget |-> b.limit, spent |-> spent, pct |-> pct,
      status |-> IF pct >= OverPct * 10 THEN "OVER" ELSE "WARNING"]

AlertsStrictlyAbove(byTeam, bs) ==
  SelectSeq([i \in 1..Len(bs) |-> AlertOf(byTeam, bs[i])],
            LAMBDA a : a.pct > WarnPct * 10)

Alerts(byTeam, bs) ==
  SelectSeq([i \in 1..Len(bs) |-> AlertOf(byTeam, bs[i])],
            LAMBDA a : a.pct >= WarnPct * 10)

BudgetAlerts(e) ==
  LET by == Breakdown(e, "team")
  IN IF by.raised # "" THEN Raises(by.raised)
     ELSE Returns(Alerts(by.ret, e.budgets))

(***************************************************************************)
(* summary                                                                 *)
(***************************************************************************)
Summary(e) ==
  IF ~AllNumeric(e.queries) THEN Raises("TypeError")
  ELSE LET tc == TotalCredits(e.queries)
       IN Returns([total_queries |-> Len(e.queries),
                   total_credits |-> RoundHalfEven(tc, 10),
                   total_cost_usd |-> RoundHalfEven(tc * e.credit_price, 1000),
                   by_team |-> Breakdown(e, "team").ret,
                   by_warehouse |-> Breakdown(e, "warehouse_name").ret,
                   anomalies |-> Anomalies(e, DefaultZThreshold).ret,
                   budget_alerts |-> BudgetAlerts(e).ret])

(***************************************************************************)
(* Inputs of the engine specification.  Sample is SAMPLE of                *)
(* test_warecost.py; Uniform is the batch of test_anomaly_none_when_uniform.*)
(***************************************************************************)
Analytics == <<"analytics">>

Ml == <<"ml">>

TagAnalytics == <<"team=", "analytics", ";", "dbt:", "stg_orders">>

TagMl == <<"team=", "ml", ";", "dag=", "daily_train">>

P1 == RawRecord(<<"p1">>, <<"analytics", "_", "bob">>, <<"ANALYTICS_WH">>, 4000, 100, TagAnalytics)

P2 == RawRecord(<<"p2">>, <<"ml", "_", "alice">>, <<"ML_WH">>, 4000, 50, TagMl)

P3 == Without(RawRecord(<<"p3">>, <<"looker">>, <<"BI_WH">>, 4, 10, <<>>), "query_tag")

Pool == {P1, P2, P3}

Sample ==
  << RawRecord(<<"q1">>, <<"analytics", "_", "bob">>, <<"ANALYTICS_WH">>, 250000, 1000000,
               TagAnalytics),
     RawRecord(<<"q2">>, <<"ml", "_", "alice">>, <<"ML_WH">>, 30000, 50000, TagMl),
     RawRecord(<<"q3">>, <<"analytics", "_", "carol">>, <<"ANALYTICS_WH">>, 1500000, 50000000,
               <<"team=", "analytics", ";", "dbt:", "fct_revenue">>),
     RawRecord(<<"q4">>, <<"looker">>, <<"BI_WH">>, 10000, 10000, <<>>) >>

Uniform ==
  [i \in 1..5 |-> RawRecord(<<"u", i>>, <<"analytics", "_", "bob">>, <<"ANALYTICS_WH">>,
                            100000, 1000000, TagAnalytics)]

\* Five equal queries and one costly one: its z-score is 5 / sqrt(6) > 2.
Spike ==
  [i \in 1..6 |-> RawRecord(<<"s", i>>, <<"ml", "_", "alice">>, <<"ML_WH">>,
                            IF i = 4 THEN 25000 ELSE 5000, 50, TagMl)]

\* Three teams, the first seen spending least and the other two the same.
Mixed == <<P3, P1, P2>>

\* Three evenly spaced costs: their z-scores are exactly -1, 0 and 1.
Spread ==
  [i \in 1..3 |-> RawRecord(<<"e", i>>, <<"looker">>, <<"BI_WH">>, 1000 * i, 10, <<>>)]

MissingField == Without(P2, "start_time")

BadCredits == [P1 EXCEPT !.credits_used = NonNumeric]

FixedBatches ==
  {Sample, Uniform, Spike, Spread, Mixed, <<P1, MissingField>>, <<BadCredits>>, <<P2, BadCredits, P1>>}

Batches == SeqsUpTo(Pool, MaxBatch) \cup FixedBatches

BudgetInputs ==
  {<<Analytics, 5252>>, <<Analytics, 6565>>, <<Ml, 0>>, <<Ml, 100>>}

ValidDims == {"team", "warehouse_name", "dbt_model", "dag_id", "user_name"}

Dimensions == ValidDims \cup {"query_id", "invalid"}

Thresholds == {-100, 100, DefaultZThreshold}

Prices == {2, 3}

(***************************************************************************)
(* The engine: one CostEngine instance and the calls made on it.           *)
(***************************************************************************)
Self == Engine(credit_price, queries, budgets)

Call(op, arg, outcome) ==
  [op |-> op, arg |-> arg, raised |-> outcome.raised, ret |-> outcome.ret]

Init ==
  /\ credit_price \in Prices
  /\ queries = <<>>
  /\ budgets = <<>>
  /\ last = Call("__init__", <<>>, Returns(<<>>))

Load ==
  \E records \in Batches :
    /\ queries' = Loaded(queries, records)
    /\ last' = Call("load", records, LoadOutcome(records))
    /\ UNCHANGED <<credit_price, budgets>>

SetBudget ==
  \E b \in BudgetInputs :
    /\ budgets' = DictSet(budgets, b[1], b[2])
    /\ last' = Call("set_budget", b, Returns(<<>>))
    /\ UNCHANGED <<credit_price, queries>>

BreakdownCall ==
  \E dim \in Dimensions :
    /\ last' = Call("breakdown", dim, Breakdown(Self, dim))
    /\ UNCHANGED <<credit_price, queries, budgets>>

AnomaliesCall ==
  \E z100 \in Thresholds :
    /\ last' = Call("anomalies", z100, Anomalies(Self, z100))
    /\ UNCHANGED <<credit_price, queries, budgets>>

BudgetAlertsCall ==
  /\ last' = Call("budget_alerts", <<>>, BudgetAlerts(Self))
  /\ UNCHANGED <<credit_price, queries, budgets>>

SummaryCallDraining ==
  /\ last' = Call("summary", <<>>, Summary(Self))
  /\ queries' = <<>>
  /\ UNCHANGED <<credit_price, budgets>>

SummaryCall ==
  /\ last' = Call("summary", <<>>, Summary(Self))
  /\ UNCHANGED <<credit_price, queries, budgets>>

Next ==
  \/ Load
  \/ SetBudget
  \/ BreakdownCall
  \/ AnomaliesCall
  \/ BudgetAlertsCall
  \/ SummaryCall

Spec == Init /\ [][Next]_vars

(***************************************************************************)
(* The HTTP handlers of api.py.  A request in flight is                    *)
(* last = [op |-> "request", arg |-> [path, dimension, body]]; the handler *)
(* its path routes to answers it with [status, built, body], built telling *)
(* whether _build_engine was entered.                                      *)
(***************************************************************************)
Response(status, built, body) == [status |-> status, built |-> built, body |-> body]

\* AnalyzeRequest: queries is Field(..., min_length=1); FastAPI answers a body
\* that fails validation with 422 before the handler runs.
BodyValid(body) == Len(body.queries) >= 1

RECURSIVE WithBudgets(_, _)
WithBudgets(d, items) ==
  IF items = <<>> THEN d
  ELSE WithBudgets(DictSet(d, items[1].team, items[1].limit), Tail(items))

\* _build_engine: [status |-> 400] when load raises TypeError or KeyError.
BuildEngine(body) ==
  IF LoadOutcome(body.queries).raised # ""
  THEN [status |-> 400, engine |-> Engine(body.credit_price, <<>>, <<>>)]
  ELSE [status |-> 200,
        engine |-> Engine(body.credit_price, Loaded(<<>>, body.queries),
                          WithBudgets(<<>>, body.budgets))]

\* An exception that leaves the handler is answered with 500.
Answer(outcome) ==
  IF outcome.raised # "" THEN Response(500, TRUE, <<>>)
  ELSE Response(200, TRUE, outcome.ret)

HandleAnalyze(body) ==
  IF ~BodyValid(body) THEN Response(422, FALSE, <<>>)
  ELSE LET b == BuildEngine(body)
       IN IF b.status # 200 THEN Response(b.status, TRUE, <<>>)
          ELSE Answer(Summary(b.engine))

HandleAnomalies(body) ==
  IF ~BodyValid(body) THEN Response(422, FALSE, <<>>)
  ELSE LET b == BuildEngine(body)
       IN IF b.status # 200 THEN Response(b.status, TRUE, <<>>)
          ELSE Answer(Anomalies(b.engine, body.z_threshold))

HandleBreakdownUnchecked(dimension, body) ==
  IF ~BodyValid(body) THEN Response(422, FALSE, <<>>)
  ELSE LET b == BuildEngine(body)
       IN IF b.status # 200 THEN Response(b.status, TRUE, <<>>)
          ELSE Answer(Breakdown(b.engine, dimension))

HandleBreakdown(dimension, body) ==
  IF ~BodyValid(body) THEN Response(422, FALSE, <<>>)
  ELSE IF dimension \notin ValidDims THEN Response(400, FALSE, <<>>)
  ELSE LET b == BuildEngine(body)
       IN IF b.status # 200 THEN Response(b.status, TRUE, <<>>)
          ELSE Answer(Breakdown(b.engine, dimension))

HandleBudgetCheck(body) ==
  IF ~BodyValid(body) THEN Response(422, FALSE, <<>>)
  ELSE IF body.budgets = <<>> THEN Response(400, FALSE, <<>>)
  ELSE LET b == BuildEngine(body)
       IN IF b.status # 200 THEN Response(b.status, TRUE, <<>>)
          ELSE Answer(BudgetAlerts(b.engine))

Bodies ==
  [queries : {<<>>, Sample, Spike, Mixed, <<P1, MissingField>>, <<BadCredits>>},
   budgets : {<<>>, <<[team |-> Analytics, limit |-> 5252], [team |-> Ml, limit |-> 100]>>},
   z_threshold : {100, DefaultZThreshold},
   credit_price : Prices]

Requests ==
  [path : {"/v1/analyze", "/v1/anomalies", "/v1/budget-check"},
   dimension : {"-"}, body : Bodies]
  \cup [path : {"/v1/breakdown"}, dimension : Dimensions, body : Bodies]

InitApi ==
  /\ credit_price \in Prices
  /\ queries = <<>>
  /\ budgets = <<>>
  /\ \E req \in Requests : last = Call("request", req, Returns(<<>>))

Respond(response) ==
  /\ last' = Call("response", last.arg, Returns(response))
  /\ UNCHANGED <<credit_price, queries, budgets>>

ApiAnalyze ==
  /\ last.op = "request" /\ last.arg.path = "/v1/analyze"
  /\ Respond(HandleAnalyze(last.arg.body))

ApiAnomalies ==
  /\ last.op = "request" /\ last.arg.path = "/v1/anomalies"
  /\ Respond(HandleAnomalies(last.arg.body))

ApiBreakdown ==
  /\ last.op = "request" /\ last.arg.path = "/v1/breakdown"
  /\ Respond(HandleBreakdown(last.arg.dimension, last.arg.body))

ApiBudgetCheck ==
  /\ last.op = "request" /\ last.arg.path = "/v1/budget-check"
  /\ Respond(HandleBudgetCheck(last.arg.body))

NextApi ==
  \/ ApiAnalyze
  \/ ApiAnomalies
  \/ ApiBreakdown
  \/ ApiBudgetCheck
  \/ Load
  \/ BreakdownCall

SpecApi == InitApi /\ [][NextApi]_vars

(***************************************************************************)
(* Properties.                                                             *)
(***************************************************************************)
Returned(op) == last.op = op /\ last.raised = ""

Indices(seq) == 1..Len(seq)

\* The credits (1e-5 credit) and bytes of the stored queries whose key
\* under dim is k, and their number.
CountIn(dim, k) == Cardinality({j \in Indices(queries) : GroupKey(queries[j], dim) = k})

CreditsIn(dim, k) ==
  SumSeq([j \in Indices(queries) |->
            IF GroupKey(queries[j], dim) = k THEN queries[j].credits_used ELSE 0])

BytesIn(dim, k) ==
  SumSeq([j \in Indices(queries) |->
            IF GroupKey(queries[j], dim) = k THEN queries[j].bytes_scanned ELSE 0])

ReportedQueries == SumSeq([i \in Indices(last.ret) |-> last.ret[i].queries])

ReportedCredits == SumSeq([i \in Indices(last.ret) |-> last.ret[i].credits])

\* C1 (as stated): breakdown over a legal dimension partitions the batch:
\* the group counts sum to the batch size and the group credits sum to the
\* credits of the whole batch.
C1_SumsEqualBatch ==
  (Returned("breakdown") /\ last.arg \in ValidDims) =>
    /\ ReportedQueries = Len(queries)
    /\ 10 * ReportedCredits = TotalCredits(queries)

\* C1 (amended): breakdown over a legal dimension puts every stored query in
\* exactly one group (one entry per key, a query with an absent attribute
\* under "unattributed"); the group counts sum to the batch size and the
\* group bytes are exact; each group's credits is the sum of its members'
\* credits rounded to 4 decimals, so the group credits sum to the batch's
\* credits up to 0.00005 per group.
C1_PartitionUpToRounding ==
  (Returned("breakdown") /\ last.arg \in ValidDims) =>
    LET ret == last.ret
        dim == last.arg
    IN /\ \A i, j \in Indices(ret) : ret[i].key = ret[j].key => i = j
       /\ \A j \in Indices(queries) :
            /\ \E i \in Indices(ret) : ret[i].key = GroupKey(queries[j], dim)
            /\ Falsy(GetAttr(queries[j], dim)) => GroupKey(queries[j], dim) = Unattributed
       /\ \A i \in Indices(ret) :
            /\ ret[i].queries = CountIn(dim, ret[i].key)
            /\ ret[i].queries >= 1
            /\ ret[i].bytes = BytesIn(dim, ret[i].key)
            /\ Abs(10 * ret[i].credits - CreditsIn(dim, ret[i].key)) <= 5
       /\ ReportedQueries = Len(queries)
       /\ Abs(10 * ReportedCredits - TotalCredits(queries)) <= 5 * Len(ret)

\* A breakdown with an "unattributed" group among several, whose rounded
\* credits do not add up to the batch's credits.
C1_Witness ==
  /\ Returned("breakdown") /\ last.arg \in ValidDims
  /\ Len(last.ret) >= 2
  /\ \E i \in Indices(last.ret) : last.ret[i].key = Unattributed
  /\ 10 * ReportedCredits # TotalCredits(queries)

\* The cents the team breakdown attributes to a team.
TeamSpend(team) ==
  RoundHalfEven(CreditsIn("team", team) * credit_price, 1000)

HasAlert(team) == \E i \in Indices(last.ret) : last.ret[i].team = team

\* C2 (as stated): no alert for a team whose spend is below 80% of its
\* budget; an alert at or above 100% of the budget is "OVER" and one in
\* [80%, 100%) is "WARNING"; a limit <= 0 and a team without a budget give
\* no alert.
C2_AlertsByTrueSpend ==
  Returned("budget_alerts") =>
    \A i \in Indices(last.ret) :
      LET a == last.ret[i]
      IN /\ \E j \in Indices(budgets) : budgets[j].team = a.team /\ budgets[j].limit = a.budget
         /\ a.budget > 0
         /\ 100 * a.spent >= 80 * a.budget
         /\ (a.spent >= a.budget) => a.status = "OVER"
         /\ (a.spent < a.budget) => a.status = "WARNING"

\* C2 (amended): the thresholds apply to the percentage rounded to one
\* decimal: a configured team with a limit > 0 has an alert exactly when its
\* spend is at least 79.95% of the limit (the rounded percentage is >= 80.0),
\* "OVER" exactly when it is at least 99.95% (rounded >= 100.0), "WARNING"
\* otherwise; a limit <= 0 and a team without a budget give no alert.
C2_AlertsByRoundedPct ==
  Returned("budget_alerts") =>
    /\ \A i \in Indices(last.ret) :
         LET a == last.ret[i]
         IN /\ \E j \in Indices(budgets) :
                 budgets[j].team = a.team /\ budgets[j].limit = a.budget
            /\ a.spent = TeamSpend(a.team)
            /\ a.budget > 0
            /\ a.pct >= 800
            /\ a.status = IF 2000 * a.spent >= 1999 * a.budget THEN "OVER" ELSE "WARNING"
            /\ a.status = "OVER" <=> a.pct >= 1000
    /\ \A j \in Indices(budgets) :
         HasAlert(budgets[j].team) <=>
           (budgets[j].limit > 0
            /\ 2000 * TeamSpend(budgets[j].team) >= 1599 * budgets[j].limit)

\* Alerts of both kinds in one answer, next to a budget that gives none.
C2_Witness ==
  /\ Returned("budget_alerts")
  /\ \E i \in Indices(last.ret) : last.ret[i].status = "OVER"
  /\ \E i \in Indices(last.ret) : last.ret[i].status = "WARNING"

\* C3 (as stated): the cost_usd that anomalies() reports for a query is its
\* credits_used times the engine's credit_price (rounded to 4 decimals).
C3_RecordCostUsesEnginePrice ==
  Returned("anomalies") =>
    \A i \in Indices(last.ret) :
      \E j \in Indices(queries) :
        /\ queries[j].query_id = last.ret[i].query_id
        /\ last.ret[i].cost_usd = RoundHalfEven(queries[j].credits_used * credit_price, 10)

\* The claimed z-test of stored query j against a threshold in hundredths:
\* (cost - mean) / stdev > threshold, the deviations taken times n and
\* divided by their gcd, the variance dividing by n - 1.
ClaimedOutlier(j, z100) ==
  LET r == Reduced(Costs(queries))
      n == Len(queries)
      ss == SumSquares(r)
      mine == (n - 1) * r[j] * r[j]
  IN IF z100 >= 0
     THEN r[j] > 0 /\ ~FracLeq(mine, ss, z100 * z100, 10000)
     ELSE r[j] >= 0 \/ ~FracLeq(z100 * z100, 10000, mine, ss)

CostsIdentical == \A i, j \in Indices(queries) : CostUsd(queries[i]) = CostUsd(queries[j])

\* C4: anomalies(z) returns exactly the stored queries whose one-sided
\* z-score (sample standard deviation, n - 1) is strictly above z; nothing
\* for fewer than 3 queries or identical costs; and never a query whose
\* cost is below the mean when z >= 0.
C4_ExactlyTheOutliers ==
  Returned("anomalies") =>
    LET ret == last.ret
        z100 == last.arg
        n == Len(queries)
    IN IF n < 3 \/ CostsIdentical THEN ret = <<>>
       ELSE /\ Len(ret) = Cardinality({j \in Indices(queries) : ClaimedOutlier(j, z100)})
            /\ \A j \in Indices(queries) :
                 ClaimedOutlier(j, z100) <=>
                   \E i \in Indices(ret) :
                     /\ ret[i].query_id = queries[j].query_id
                     /\ ret[i].cost_usd = CostUsd(queries[j])
            /\ z100 >= 0 =>
                 \A i \in Indices(ret) : n * ret[i].cost_usd > SumSeq(Costs(queries))

\* Some queries are flagged and some are not, one of them exactly at the
\* threshold.
C4_Witness ==
  /\ Returned("anomalies")
  /\ Len(last.ret) >= 1
  /\ Len(last.ret) < Len(queries)
  /\ \E j \in Indices(queries) :
       /\ ~ClaimedOutlier(j, last.arg)
       /\ ZAtLeast(Costs(queries), j, last.arg)

Invalid(r) ==
  \/ ~(RequiredFields \subseteq DOMAIN r)
  \/ ("credits_used" \in DOMAIN r /\ ~IsNumber(r.credits_used))

\* C5 (as stated): load fails with a validation error, and ingests nothing,
\* whenever a record of the batch misses a required field or carries a
\* required field of an incompatible type.
C5_LoadRejectsInvalidRecords ==
  (last.op = "load" /\ \E i \in Indices(last.arg) : Invalid(last.arg[i])) =>
    /\ last.raised # ""
    /\ \A j \in Indices(queries) : IsNumber(queries[j].credits_used)

BreakdownResponse == last.op = "response" /\ last.arg.path = "/v1/breakdown"

\* C6 (as stated): breakdown with a dimension outside the whitelist fails
\* with InvalidDimension and returns no grouping; the API answers 400 before
\* any engine is built.
C6_UnknownDimensionFails ==
  /\ (last.op = "breakdown" /\ last.arg \notin ValidDims) =>
       last.raised = "InvalidDimension" /\ last.ret = <<>>
  /\ (BreakdownResponse /\ last.arg.dimension \notin ValidDims) =>
       last.ret.status = 400 /\ ~last.ret.built

\* C6 (amended): the whitelist is enforced by the API handler only.  The
\* handler answers a dimension outside it with 400 before any engine is
\* built (422, from request validation, when the body's query list is
\* empty).  CostEngine.breakdown itself never raises InvalidDimension: for a
\* name that is no attribute of a record it returns every stored query in
\* the single group "unattributed", and for another attribute it groups by
\* that attribute.
C6_WhitelistAtBoundaryOnly ==
  /\ (last.op = "breakdown" /\ last.arg \notin ValidDims) =>
       /\ last.raised = IF AllNumeric(queries) THEN "" ELSE "TypeError"
       /\ (last.raised = "" /\ last.arg \notin StrFields /\ queries # <<>>) =>
            /\ Len(last.ret) = 1
            /\ last.ret[1].key = Unattributed
            /\ last.ret[1].queries = Len(queries)
       /\ (last.raised = "" /\ last.arg \in StrFields) =>
            \A j \in Indices(queries) :
              \E i \in Indices(last.ret) :
                last.ret[i].key = PyOr(queries[j][last.arg], Unattributed)
  /\ (BreakdownResponse /\ last.arg.dimension \notin ValidDims) =>
       /\ ~last.ret.built
       /\ last.ret.body = <<>>
       /\ last.ret.status = IF last.arg.body.queries = <<>> THEN 422 ELSE 400

\* The handler has refused a dimension outside the whitelist.
C6_Witness ==
  /\ BreakdownResponse
  /\ last.arg.dimension \notin ValidDims
  /\ last.arg.body.queries # <<>>
  /\ last.ret.status = 400

\* The least index from `from` on at which s holds a symbol of stops, or
\* Len(s) + 1.
NextStop(s, from, stops) ==
  IF \E i \in from..Len(s) : s[i] \in stops
  THEN CHOOSE i \in from..Len(s) : s[i] \in stops /\ \A j \in from..(i - 1) : s[j] \notin stops
  ELSE Len(s) + 1

\* s without its leading and trailing blanks.
Trimmed(s) ==
  LET inked == {i \in 1..Len(s) : s[i] # " "}
  IN IF inked = {} THEN <<>>
     ELSE SubSeq(s, CHOOSE i \in inked : \A j \in inked : i <= j,
                    CHOOSE i \in inked : \A j \in inked : i >= j)

\* The text after the first "team=" of the tag, up to the next symbol of stops.
TeamText(tag, stops) ==
  LET at == NextStop(tag, 1, {"team="})
  IN Trimmed(SubSeq(tag, at + 1, NextStop(tag, at + 1, stops) - 1))

UserFallback(user) ==
  IF "_" \in Range(user) THEN SubSeq(user, 1, NextStop(user, 1, {"_"}) - 1)
  ELSE Unattributed

Normalized == last.op = "QueryRecord"

TagOf(raw) == IF "query_tag" \in DOMAIN raw THEN raw.query_tag ELSE <<>>

\* C7 (as stated): when the tag contains "team=", the team is the trimmed
\* text between it and the next ";", whatever the user name; otherwise the
\* user name up to its first underscore; otherwise "unattributed".
C7_TeamPrecedence ==
  Normalized =>
    last.ret.team =
      IF "team=" \in Range(TagOf(last.arg)) THEN TeamText(TagOf(last.arg), {";"})
      ELSE UserFallback(last.arg.user_name)

\* C7 (amended): when the tag contains "team=" and the trimmed text between
\* its first occurrence and the next ";" or the next "team=" is not empty,
\* the team is that text, whatever the user name; otherwise (no "team=", or
\* an empty value) the user name up to its first underscore; or
\* "unattributed" when the user name has no underscore.
C7_TeamPrecedenceNonEmptyValue ==
  Normalized =>
    LET tag == TagOf(last.arg)
        text == TeamText(tag, {";", "team="})
    IN last.ret.team =
         IF "team=" \in Range(tag) /\ text # <<>> THEN text
         ELSE UserFallback(last.arg.user_name)

\* A tag with a team value on a record whose user name has an underscore.
C7_Witness ==
  /\ Normalized
  /\ "_" \in Range(last.arg.user_name)
  /\ "team=" \in Range(TagOf(last.arg))
  /\ last.ret.team = <<"x">>
  /\ last.ret.team # UserFallback(last.arg.user_name)

ReadOps == {"summary", "breakdown", "anomalies", "budget_alerts"}

\* C8: a read (summary, breakdown, anomalies, budget_alerts) changes neither
\* the stored batch nor the budgets nor the credit price, and summary()
\* called again right after summary() gives the same output.
C8_ReadsArePure ==
  [][last'.op \in ReadOps =>
       /\ queries' = queries /\ budgets' = budgets /\ credit_price' = credit_price
       /\ last'.op = "summary" =>
            /\ last'.raised = Summary(Engine(credit_price', queries', budgets')).raised
            /\ last'.ret = Summary(Engine(credit_price', queries', budgets')).ret]_vars

\* summary() has answered on an engine holding queries and budgets.
C8_Witness ==
  /\ Returned("summary")
  /\ last.ret.total_queries >= 3
  /\ last.ret.budget_alerts # <<>>
  /\ last.ret.anomalies # <<>>

\* Whether stored record q is the record built from raw dict r.
BuiltFrom(q, r) ==
  /\ \A f \in DOMAIN r : q[f] = r[f]
  /\ "query_tag" \notin DOMAIN r => q.query_tag = <<>>

LimitOf(bs, team) == {bs[i].limit : i \in {j \in Indices(bs) : bs[j].team = team}}

\* C9: a successful load stores exactly its records, in input order, and
\* returns their number; a failed load and every other call leave the batch
\* alone; load leaves the budgets alone; set_budget leaves the batch alone
\* and makes the team's limit the amount given, the other teams' limits
\* staying; a team has at most one limit and at most one alert.
C9_LoadReplacesBudgetsPersist ==
  [][/\ (last'.op = "load" /\ last'.raised = "") =>
          /\ Len(queries') = Len(last'.arg)
          /\ \A i \in Indices(last'.arg) : BuiltFrom(queries'[i], last'.arg[i])
          /\ last'.ret = Len(last'.arg)
     /\ (last'.op # "load" \/ last'.raised # "") => queries' = queries
     /\ last'.op # "set_budget" => budgets' = budgets
     /\ last'.op = "set_budget" =>
          /\ LimitOf(budgets', last'.arg[1]) = {last'.arg[2]}
          /\ \A i \in Indices(budgets) :
               budgets[i].team # last'.arg[1] =>
                 LimitOf(budgets', budgets[i].team) = {budgets[i].limit}
          /\ \A i \in Indices(budgets') :
               budgets'[i].team = last'.arg[1] \/ HasKey(budgets, budgets'[i].team)
     /\ \A i, j \in Indices(budgets') : budgets'[i].team = budgets'[j].team => i = j
     /\ (last'.op = "budget_alerts" /\ last'.raised = "") =>
          \A i, j \in Indices(last'.ret) : last'.ret[i].team = last'.ret[j].team => i = j
    ]_vars

\* A load has replaced a batch while budgets were set.
C9_Witness ==
  /\ Returned("load")
  /\ last.ret = 2
  /\ queries = [i \in 1..2 |-> QueryRecord(last.arg[i])]
  /\ Len(budgets) = 2

\* The position at which key k first appears in the stored batch.
FirstSeen(dim, k) ==
  CHOOSE j \in Indices(queries) :
    /\ GroupKey(queries[j], dim) = k
    /\ \A h \in 1..(j - 1) : GroupKey(queries[h], dim) # k

\* C10: the groups of a breakdown are listed by total credits, highest
\* first, and groups of equal total credits in the order in which their
\* keys first appear in the batch.
C10_GroupsByCreditsThenFirstSeen ==
  Returned("breakdown") =>
    \A i, j \in Indices(last.ret) :
      i < j =>
        LET ci == CreditsIn(last.arg, last.ret[i].key)
            cj == CreditsIn(last.arg, last.ret[j].key)
        IN /\ ci >= cj
           /\ ci = cj => FirstSeen(last.arg, last.ret[i].key) < FirstSeen(last.arg, last.ret[j].key)

\* A breakdown whose listing differs from the order of first appearance,
\* with two groups of equal credits in it.
C10_Witness ==
  /\ Returned("breakdown")
  /\ last.arg \in ValidDims
  /\ \E i, j \in Indices(last.ret) :
       /\ i < j
       /\ CreditsIn(last.arg, last.ret[i].key) = CreditsIn(last.arg, last.ret[j].key)
  /\ \E i, j \in Indices(last.ret) :
       /\ i < j
       /\ FirstSeen(last.arg, last.ret[i].key) > FirstSeen(last.arg, last.ret[j].key)

====
